---- MODULE Spec2Model ----
(***************************************************************************)
(* Model of the Q-Chem -> Gaussian "external" translator (src/src/lib.rs). *)
(*                                                                         *)
(* Text is modelled character by character: a string is a sequence of      *)
(* one-character strings, so that splitting, trimming and numeric parsing  *)
(* are computed the way the library code computes them.  A float is the    *)
(* record [neg, m, e, s] standing for (-1)^neg * m * 10^-e * CONV_FACTOR^s *)
(* (s counts the multiplications by CONV_FACTOR that were applied).        *)
(* The output file is a sequence of formatted fields [v, w] (value and     *)
(* printed width) and newline characters.                                  *)
(***************************************************************************)
EXTENDS Integers, Sequences, FiniteSets, TLC

VARIABLES pc, call, ret, fs, given, outfile, calc, loc

vars == <<pc, call, ret, fs, given, outfile, calc, loc>>

-----------------------------------------------------------------------------
(* Bounds of the model *)

\* largest atom count of a Calculation handed to qchem_translate_to_gaussian
MaxAtoms == 2
\* largest derivative order of a Calculation handed to the translator
MaxNder == 3
\* largest token count / requested count tried on parse_nums_from_str
MaxCount == 3
\* largest number of lines of an engine log tried on parse_energy
MaxLogLines == 3
\* largest number of atom lines of a request file tried on parse_gau_ein
MaxAtomLines == 2

-----------------------------------------------------------------------------
(* Generic values *)

None == [kind |-> "none"]
\* a file that does not exist or cannot be opened, and a file holding text
NoFile == [exists |-> FALSE, text |-> <<>>]
File(text) == [exists |-> TRUE, text |-> text]
NL == "\n"
SP == " "

Digit == {"0", "1", "2", "3", "4", "5", "6", "7", "8", "9"}
DigitChar == <<"0", "1", "2", "3", "4", "5", "6", "7", "8", "9">>
DigitVal(c) == CHOOSE d \in 0..9 : DigitChar[d + 1] = c

\* char::is_whitespace, restricted to the characters of the model
IsWhitespace(c) == c \in {SP, NL}

Max(a, b) == IF a >= b THEN a ELSE b

RECURSIVE Pow10(_)
Pow10(k) == IF k = 0 THEN 1 ELSE 10 * Pow10(k - 1)

Ok(v) == [kind |-> "ok", val |-> v]
Err(m) == [kind |-> "err", msg |-> m]
\* the error of parse_nums_from_str that reports both counts
CountErr(n, got) ==
    [kind |-> "err", msg |-> "expected {} values, got {}",
     expected |-> n, got |-> got]
\* the call does not return: the thread panics
Panic == [kind |-> "panic"]

-----------------------------------------------------------------------------
(* str::parse for the three numeric types the library instantiates *)

I8Min == -128
I8Max == 127
U8Max == 255

\* value of a digit string pushed onto acc; -1 when a character is no digit
RECURSIVE DigitsVal(_, _)
DigitsVal(s, acc) ==
    IF s = <<>> THEN acc
    ELSE IF Head(s) \notin Digit THEN -1
    ELSE DigitsVal(Tail(s), acc * 10 + DigitVal(Head(s)))

\* <integer type>::from_str: optional sign ('-' only for signed types), at
\* least one digit, nothing else, value inside [lo, hi]
ParseInt(tok, signed, lo, hi) ==
    IF tok = <<>> THEN Err("invalid")
    ELSE IF Head(tok) \in {"+", "-"} /\ Tail(tok) = <<>> THEN Err("invalid")
    ELSE LET neg == Head(tok) = "-" /\ signed
              digits == IF Head(tok) = "+" \/ neg THEN Tail(tok) ELSE tok
              v == DigitsVal(digits, 0)
              n == IF neg THEN 0 - v ELSE v
         IN IF v = -1 \/ n < lo \/ n > hi THEN Err("invalid") ELSE Ok(n)

\* a float without trailing zeros in its fraction
RECURSIVE Norm(_, _, _)
Norm(neg, m, e) ==
    IF e > 0 /\ m % 10 = 0 THEN Norm(neg, m \div 10, e - 1)
    ELSE [neg |-> neg, m |-> m, e |-> e, s |-> 0]

\* index of the first "." of s, 0 when there is none
RECURSIVE DotAt(_, _)
DotAt(s, k) ==
    IF k > Len(s) THEN 0 ELSE IF s[k] = "." THEN k ELSE DotAt(s, k + 1)

\* f64::from_str on decimal literals: optional sign, digits with an optional
\* ".", at least one digit in all (exponents, inf and nan lie outside the
\* alphabet of the model)
ParseF64(tok) ==
    IF tok = <<>> THEN Err("invalid")
    ELSE LET signed == Head(tok) \in {"+", "-"}
             body == IF signed THEN Tail(tok) ELSE tok
             dot == DotAt(body, 1)
             ip == IF dot = 0 THEN body ELSE SubSeq(body, 1, dot - 1)
             fp == IF dot = 0 THEN <<>> ELSE SubSeq(body, dot + 1, Len(body))
             v == DigitsVal(ip \o fp, 0)
         IN IF ip \o fp = <<>> \/ v = -1 THEN Err("invalid")
            ELSE Ok(Norm(Head(tok) = "-", v, Len(fp)))

\* x.parse::<T>() for T in i8, u8, f64
Parse(T, tok) ==
    CASE T = "i8" -> ParseInt(tok, TRUE, I8Min, I8Max)
      [] T = "u8" -> ParseInt(tok, FALSE, 0, U8Max)
      [] T = "f64" -> ParseF64(tok)

-----------------------------------------------------------------------------
(* str::split_whitespace, str::lines, str::trim, str::starts_with *)

\* the r-th smallest member of a set of numbers
Nth(S, r) == CHOOSE x \in S : Cardinality({y \in S : y < x}) = r - 1

\* the maximal runs of non-whitespace characters of s, in order
SplitWhitespace(s) ==
    LET starts == {k \in 1..Len(s) :
                      ~IsWhitespace(s[k]) /\ (k = 1 \/ IsWhitespace(s[k - 1]))}
        ends == {k \in 1..Len(s) :
                    ~IsWhitespace(s[k])
                        /\ (k = Len(s) \/ IsWhitespace(s[k + 1]))}
    IN [r \in 1..Cardinality(starts) |->
           SubSeq(s, Nth(starts, r), Nth(ends, r))]

\* the lines of s: split at "\n", no empty last line after a final "\n"
Lines(s) ==
    LET breaks == {k \in 1..Len(s) : s[k] = NL}
        last == IF s /= <<>> /\ s[Len(s)] /= NL THEN 1 ELSE 0
        from(r) == IF r = 1 THEN 1 ELSE Nth(breaks, r - 1) + 1
        to(r) == IF r <= Cardinality(breaks) THEN Nth(breaks, r) - 1
                 ELSE Len(s)
    IN [r \in 1..(Cardinality(breaks) + last) |-> SubSeq(s, from(r), to(r))]

\* s without its leading and trailing whitespace
Trim(s) ==
    LET solid == {k \in 1..Len(s) : ~IsWhitespace(s[k])}
    IN IF solid = {} THEN <<>>
       ELSE SubSeq(s, Nth(solid, 1), Nth(solid, Cardinality(solid)))

StartsWith(s, p) == Len(s) >= Len(p) /\ SubSeq(s, 1, Len(p)) = p

-----------------------------------------------------------------------------
(* parse_nums_from_str *)

\* collect::<Result<Vec<_>, _>>() over the parsed tokens: the values in
\* order, or the first failure (the iteration stops there)
Collect(T, toks) ==
    LET parsed == [k \in 1..Len(toks) |-> Parse(T, toks[k])]
        failed == {k \in 1..Len(toks) : parsed[k].kind = "err"}
    IN IF failed = {} THEN Ok([k \in 1..Len(toks) |-> parsed[k].val])
       ELSE parsed[Nth(failed, 1)]

\* variant of CountMatches that accepts surplus values (C5 fails of it)
CountAtLeast(len, n) == len >= n
\* i.len() == n.into()
CountMatches(len, n) == len = n

parse_nums_from_str(T, n, data) ==
    LET nums == Collect(T, SplitWhitespace(data))
    IN IF nums.kind = "ok"
       THEN IF CountMatches(Len(nums.val), n)
            THEN Ok(nums.val)
            ELSE CountErr(n, Len(nums.val))
       ELSE Err("failed to parse values")

-----------------------------------------------------------------------------
(* parse_energy *)

Label ==
    <<" ", "T", "h", "e", " ", "Q", "M", " ", "p", "a", "r", "t", " ", "o",
      "f", " ", "t", "h", "e", " ", "e", "n", "e", "r", "g", "y", " ", "i",
      "s">>

\* variant of FirstMatch that keeps the last matching line (C6 fails of it)
RECURSIVE LastMatch(_)
LastMatch(lines) ==
    IF lines = <<>> THEN None
    ELSE IF StartsWith(lines[Len(lines)], Label) THEN Ok(lines[Len(lines)])
    ELSE LastMatch(SubSeq(lines, 1, Len(lines) - 1))

\* .filter(|x| x.starts_with(LABEL)).next(): the first matching line
RECURSIVE FirstMatch(_)
FirstMatch(lines) ==
    IF lines = <<>> THEN None
    ELSE IF StartsWith(Head(lines), Label) THEN Ok(Head(lines))
    ELSE FirstMatch(Tail(lines))

parse_energy(qchem_out) ==
    LET eline == FirstMatch(Lines(qchem_out))
    IN IF eline.kind = "none"
       THEN Err("no energy line found in output file")
       ELSE LET rest == SubSeq(eline.val, Len(Label) + 1, Len(eline.val))
                r == ParseF64(Trim(rest))
            IN IF r.kind = "ok" THEN r ELSE Err("failed to parse floats")

-----------------------------------------------------------------------------
(* parse_gau_ein *)

\* column at which an atom line is split
AtomColumn == 11

\* variant of Retained that drops the first float (C4 fails of it)
RetainedLast(vals) == <<vals[2], vals[3], vals[4]>>
\* the three of the four parsed floats that are kept: the first three
Retained(vals) == <<vals[1], vals[2], vals[3]>>

\* entries[k].try_into().unwrap() from i8 to usize
ToUsize(x) == IF x < 0 THEN Panic ELSE Ok(x)

\* the loop over the atom lines: `rest` are the lines not yet consumed, `todo`
\* the iterations left
RECURSIVE AtomLoop(_, _, _, _)
AtomLoop(rest, todo, zvals, coords) ==
    IF todo = 0 THEN Ok([z |-> zvals, coords |-> coords])
    ELSE IF rest = <<>> THEN Err("Gaussian input file is truncated")
    ELSE LET line == Head(rest)
         IN IF Len(line) < AtomColumn THEN Panic
            ELSE LET start == SubSeq(line, 1, AtomColumn)
                     end == SubSeq(line, AtomColumn + 1, Len(line))
                     atom == parse_nums_from_str("u8", 1, start)
                     vals == parse_nums_from_str("f64", 4, end)
                 IN IF atom.kind = "err" THEN atom
                    ELSE IF vals.kind = "err" THEN vals
                    ELSE AtomLoop(Tail(rest), todo - 1,
                                  Append(zvals, atom.val[1]),
                                  Append(coords, Retained(vals.val)))

parse_gau_ein(infile) ==
    IF ~infile.exists THEN Err("io: request file")
    ELSE LET gauss == Lines(infile.text)
         IN IF gauss = <<>> THEN Err("Gaussian input file is empty")
            ELSE LET entries == parse_nums_from_str("i8", 4, Head(gauss))
                 IN IF entries.kind = "err" THEN entries
                    ELSE IF ToUsize(entries.val[1]).kind = "panic" THEN Panic
                    ELSE IF ToUsize(entries.val[2]).kind = "panic" THEN Panic
                    ELSE LET atoms == AtomLoop(Tail(gauss), entries.val[1],
                                               <<>>, <<>>)
                         IN IF atoms.kind /= "ok" THEN atoms
                            ELSE Ok([natoms |-> entries.val[1],
                                     nder |-> entries.val[2],
                                     charge |-> entries.val[3],
                                     spin |-> entries.val[4],
                                     z |-> atoms.val.z,
                                     coords |-> atoms.val.coords])

-----------------------------------------------------------------------------
(* the 16-bit arithmetic of qchem_translate_to_gaussian *)

U16Max == 65535

\* a * b on u16: the product when it fits; otherwise the build decides, a
\* panic with overflow checks (debug) and the wrapped product without them
\* (release)
U16Mul(a, b) ==
    IF a * b <= U16Max THEN {Ok(a * b)}
    ELSE {Panic, Ok((a * b) % (U16Max + 1))}

\* (3 * natoms) * (3 * natoms + 1) / 2
n_hessian(natoms) ==
    {IF p.kind = "ok" THEN Ok(p.val \div 2) ELSE p :
        p \in U16Mul(3 * natoms, 3 * natoms + 1)}

-----------------------------------------------------------------------------
(* format!("{:+20.12}", x) and the multiplication by CONV_FACTOR *)

\* CONV_FACTOR = 4.46552493159e-4 = (ConvHi * 10^6 + ConvLo) * 10^-15
ConvHi == 446552
ConvLo == 493159
FieldWidth == 20
Precision == 12

\* x * CONV_FACTOR
Scale(x) == [x EXCEPT !.s = @ + 1]

\* the integer part of |x|, for x scaled at most once
IntPart(x) ==
    IF x.s = 0 THEN x.m \div Pow10(x.e)
    ELSE ((x.m * ConvHi + (x.m * ConvLo) \div Pow10(6)) \div Pow10(9))
            \div Pow10(x.e)

RECURSIVE NumDigits(_)
NumDigits(n) == IF n < 10 THEN 1 ELSE 1 + NumDigits(n \div 10)

\* one formatted field: sign, integer digits, ".", Precision digits, padded on
\* the left to FieldWidth characters and never cut
Fmt(x) ==
    [t |-> "num", v |-> x,
     w |-> Max(FieldWidth, 1 + NumDigits(IntPart(x)) + 1 + Precision)]

NLItem == [t |-> "nl"]
Zero == [neg |-> FALSE, m |-> 0, e |-> 0, s |-> 0]
\* format!("{:+20.12}{:+20.12}{:+20.12}\n", 0.0, 0.0, 0.0)
ZeroLine == <<Fmt(Zero), Fmt(Zero), Fmt(Zero), NLItem>>

-----------------------------------------------------------------------------
(* Inputs: text rendered from known content *)

F(neg, m, e) == [neg |-> neg, m |-> m, e |-> e, s |-> 0]
Bad == [kind |-> "bad"]

SeqsUpTo(S, n) == UNION {[1..k -> S] : k \in 0..n}

RECURSIVE Concat(_, _)
\* the strings of ss in order, each followed by sep
Concat(ss, sep) ==
    IF ss = <<>> THEN <<>> ELSE Head(ss) \o sep \o Concat(Tail(ss), sep)

\* tokens with what each is as an i8, a u8 and an f64
TokenSamples ==
    { [s |-> <<"1">>, i8 |-> Ok(1), u8 |-> Ok(1), f64 |-> Ok(F(FALSE, 1, 0))],
      [s |-> <<"-", "2">>, i8 |-> Ok(-2), u8 |-> Bad, f64 |-> Ok(F(TRUE, 2, 0))],
      [s |-> <<"2", "0", "0">>, i8 |-> Bad, u8 |-> Ok(200),
       f64 |-> Ok(F(FALSE, 200, 0))],
      [s |-> <<"1", ".", "5">>, i8 |-> Bad, u8 |-> Bad,
       f64 |-> Ok(F(FALSE, 15, 1))],
      [s |-> <<"+", "3">>, i8 |-> Ok(3), u8 |-> Ok(3), f64 |-> Ok(F(FALSE, 3, 0))],
      [s |-> <<"x">>, i8 |-> Bad, u8 |-> Bad, f64 |-> Bad] }

NumTypes == {"i8", "u8", "f64"}

\* the calls of parse_nums_from_str tried: the tokens are laid out with a
\* blank or a line break after each, with or without leading blanks
NumsCalls ==
    { [fn |-> "parse_nums_from_str", T |-> T, n |-> n, toks |-> toks,
       data |-> lead \o Concat([k \in 1..Len(toks) |-> toks[k].s], <<sep>>)] :
        T \in NumTypes, n \in 0..MaxCount, toks \in SeqsUpTo(TokenSamples, MaxCount),
        sep \in {SP, NL}, lead \in {<<>>, <<SP, SP>>} }

\* engine log lines with whether each starts with the label and what follows
LogLineSamples ==
    { [s |-> Label \o <<SP, SP, SP, SP, SP, SP, "-", "7", "6", ".", "1", "2">>,
       labelled |-> TRUE, val |-> Ok(F(TRUE, 7612, 2))],
      [s |-> Label \o <<SP, "1", ".", "5", SP>>, labelled |-> TRUE,
       val |-> Ok(F(FALSE, 15, 1))],
      [s |-> Label \o <<"5">>, labelled |-> TRUE, val |-> Ok(F(FALSE, 5, 0))],
      [s |-> Label \o <<SP, "x">>, labelled |-> TRUE, val |-> Bad],
      [s |-> Label \o <<SP, "1", SP, "2">>, labelled |-> TRUE, val |-> Bad],
      [s |-> Label, labelled |-> TRUE, val |-> Bad],
      [s |-> <<SP>> \o Label \o <<SP, "3">>, labelled |-> FALSE, val |-> Bad],
      [s |-> <<"x", SP, "7">>, labelled |-> FALSE, val |-> Bad] }

EnergyCalls ==
    { [fn |-> "parse_energy", lines |-> ls,
       text |-> LET t == Concat([k \in 1..Len(ls) |-> ls[k].s], <<NL>>)
                IN IF final \/ t = <<>> THEN t ELSE SubSeq(t, 1, Len(t) - 1)] :
        ls \in SeqsUpTo(LogLineSamples, MaxLogLines), final \in BOOLEAN }

CountCalls == { [fn |-> "n_hessian", natoms |-> n] : n \in 0..I8Max }

\* request headers with the four integers each declares (ok: four i8 values)
HeaderSamples ==
    { [s |-> <<"2", SP, "2", SP, "0", SP, "1">>, ok |-> TRUE,
       n |-> 2, d |-> 2, c |-> 0, sp |-> 1],
      [s |-> <<"1", SP, "0", SP, "-", "1", SP, "2">>, ok |-> TRUE,
       n |-> 1, d |-> 0, c |-> -1, sp |-> 2],
      [s |-> <<"0", SP, "1", SP, "0", SP, "1">>, ok |-> TRUE,
       n |-> 0, d |-> 1, c |-> 0, sp |-> 1],
      [s |-> <<"1", SP, "3", SP, "0", SP, "1">>, ok |-> TRUE,
       n |-> 1, d |-> 3, c |-> 0, sp |-> 1],
      [s |-> <<"3", SP, "1", SP, "0", SP, "1">>, ok |-> TRUE,
       n |-> 3, d |-> 1, c |-> 0, sp |-> 1],
      [s |-> <<"-", "1", SP, "0", SP, "0", SP, "1">>, ok |-> TRUE,
       n |-> -1, d |-> 0, c |-> 0, sp |-> 1],
      [s |-> <<"2", SP, "-", "1", SP, "0", SP, "1">>, ok |-> TRUE,
       n |-> 2, d |-> -1, c |-> 0, sp |-> 1],
      [s |-> <<"1", SP, "0", SP, "0">>, ok |-> FALSE,
       n |-> 0, d |-> 0, c |-> 0, sp |-> 0],
      [s |-> <<"1", SP, "x", SP, "0", SP, "1">>, ok |-> FALSE,
       n |-> 0, d |-> 0, c |-> 0, sp |-> 0] }

Blanks10 == <<SP, SP, SP, SP, SP, SP, SP, SP, SP, SP>>

\* atom lines with the atom each describes: "good" lines hold an atomic number
\* in the first 11 columns and four floats after them
AtomLineSamples ==
    { [s |-> Blanks10 \o <<"8", SP, "1", SP, "2", ".", "5", SP, "-", "3", SP, "4">>,
       kind |-> "good", z |-> 8,
       xyz |-> <<F(FALSE, 1, 0), F(FALSE, 25, 1), F(TRUE, 3, 0)>>],
      [s |-> Blanks10 \o <<"1", SP, "0", SP, "0", SP, "7", SP, "9">>,
       kind |-> "good", z |-> 1,
       xyz |-> <<F(FALSE, 0, 0), F(FALSE, 0, 0), F(FALSE, 7, 0)>>],
      [s |-> <<"1", SP, "1", SP, "2", SP, "3", SP, "4">>,
       kind |-> "short", z |-> 1, xyz |-> <<>>],
      [s |-> Blanks10 \o <<"x", SP, "1", SP, "2", SP, "3", SP, "4">>,
       kind |-> "malformed", z |-> 0, xyz |-> <<>>],
      [s |-> Blanks10 \o <<"1", SP, "1", SP, "2", SP, "3">>,
       kind |-> "malformed", z |-> 1, xyz |-> <<>>] }

EinCalls ==
    { [fn |-> "parse_gau_ein", header |-> h, lines |-> ls,
       infile |-> File(h.s \o <<NL>>
                       \o Concat([k \in 1..Len(ls) |-> ls[k].s], <<NL>>))] :
        h \in HeaderSamples, ls \in SeqsUpTo(AtomLineSamples, MaxAtomLines) }
    \cup { [fn |-> "parse_gau_ein", header |-> h, lines |-> <<>>, infile |-> f] :
            h \in {[s |-> <<>>, ok |-> FALSE, n |-> 0, d |-> 0, c |-> 0, sp |-> 0]},
            f \in {NoFile, File(<<>>)} }

-----------------------------------------------------------------------------
(* The library functions called on their own *)

InitCall(calls) ==
    /\ pc = "call"
    /\ call \in calls
    /\ ret = None
    /\ fs = None
    /\ given = None
    /\ outfile = NoFile
    /\ calc = None
    /\ loc = None

Return(r) ==
    /\ pc = "call"
    /\ pc' = "returned"
    /\ ret' = r
    /\ UNCHANGED <<call, fs, given, outfile, calc, loc>>

CallParseNums ==
    /\ call.fn = "parse_nums_from_str"
    /\ Return(parse_nums_from_str(call.T, call.n, call.data))

CallParseEnergy ==
    /\ call.fn = "parse_energy"
    /\ Return(parse_energy(call.text))

CallParseGauEin ==
    /\ call.fn = "parse_gau_ein"
    /\ Return(parse_gau_ein(call.infile))

CallNHessian ==
    /\ call.fn = "n_hessian"
    /\ \E r \in n_hessian(call.natoms) : Return(r)

SpecNums == InitCall(NumsCalls) /\ [][CallParseNums]_vars
SpecEnergy == InitCall(EnergyCalls) /\ [][CallParseEnergy]_vars
SpecEin == InitCall(EinCalls) /\ [][CallParseGauEin]_vars
SpecCount == InitCall(CountCalls) /\ [][CallNHessian]_vars

Returned(fn) == pc = "returned" /\ call.fn = fn

-----------------------------------------------------------------------------
(* Claims about the library functions *)

\* what the tokens of a parse_nums_from_str call are as numbers of its type
TokAs(k) == call.toks[k][call.T]
AllTokensValid == \A k \in 1..Len(call.toks) : TokAs(k).kind = "ok"

\* C5: parse_nums_from_str(n, data) returns Ok exactly when every
\* whitespace-separated token is a number of the target type and there are
\* exactly n of them, and then returns the n numbers in input order; otherwise
\* it returns an error carrying no values: the parse error when some token is
\* invalid (whatever the count), else the count error reporting n and the
\* number of tokens.
C5_ParseNumsAllOrNothing ==
    Returned("parse_nums_from_str") =>
        /\ ret.kind \in {"ok", "err"}
        /\ ret.kind = "ok" <=> (AllTokensValid /\ Len(call.toks) = call.n)
        /\ ret.kind = "ok" =>
              ret.val = [k \in 1..call.n |-> TokAs(k).val]
        /\ ret.kind = "err" => "val" \notin DOMAIN ret
        /\ ~AllTokensValid => ret = Err("failed to parse values")
        /\ (AllTokensValid /\ Len(call.toks) /= call.n) =>
              ret = CountErr(call.n, Len(call.toks))

\* C5 witness: an invalid token in a call whose count is wrong too, answered
\* by the parse error
C5_Witness ==
    /\ Returned("parse_nums_from_str")
    /\ ~AllTokensValid
    /\ Len(call.toks) > call.n
    /\ call.n > 0
    /\ TokAs(1).kind = "ok"
    /\ ret = Err("failed to parse values")

\* the indexes of the log lines that start with the label
Labelled == {k \in 1..Len(call.lines) : call.lines[k].labelled}
FirstLabelled == CHOOSE k \in Labelled : \A j \in Labelled : k <= j

\* C6: parse_energy is decided by the first line that starts with the label:
\* the missing-energy-line error when there is none, else the float of that
\* line's remainder, or the parse error when the remainder is no float,
\* whatever later matching lines hold.
C6_FirstEnergyLineDecides ==
    Returned("parse_energy") =>
        IF Labelled = {}
        THEN ret = Err("no energy line found in output file")
        ELSE IF call.lines[FirstLabelled].val.kind = "ok"
             THEN ret = call.lines[FirstLabelled].val
             ELSE ret = Err("failed to parse floats")

\* C6 witness: two matching lines with different values, the first one
\* returned
C6_Witness ==
    /\ Returned("parse_energy")
    /\ \E j, k \in Labelled :
          /\ j < k
          /\ j = FirstLabelled
          /\ call.lines[k].val.kind = "ok"
          /\ call.lines[j].val.kind = "ok"
          /\ call.lines[j].val /= call.lines[k].val
          /\ ret = call.lines[j].val

\* C7: for every atom count a request header can declare (0..127) the count
\* of values required from hessian.dat is 3*natoms*(3*natoms+1)/2, the 16-bit
\* computation neither overflowing nor wrapping.
C7_HessianCountExact ==
    Returned("n_hessian") =>
        ret = Ok((3 * call.natoms * (3 * call.natoms + 1)) \div 2)

\* C8: every Calculation parse_gau_ein returns has nder in {0, 1, 2}.
C8_NderInRange ==
    (Returned("parse_gau_ein") /\ ret.kind = "ok") => ret.val.nder \in {0, 1, 2}

\* C9: parse_gau_ein always returns a Calculation or an error; it never
\* panics.
C9_NeverPanics ==
    Returned("parse_gau_ein") => ret.kind \in {"ok", "err"}

Truncated == Err("Gaussian input file is truncated")
\* the header is four i8 values and declares more atoms than lines follow it
DeclaresMore == call.header.ok /\ call.header.n > Len(call.lines)

\* what C4 says of the Calculations returned
C4_Returned ==
    ret.kind = "ok" =>
        /\ call.header.ok
        /\ ret.val.natoms = call.header.n
        /\ ret.val.nder = call.header.d
        /\ ret.val.charge = call.header.c
        /\ ret.val.spin = call.header.sp
        /\ Len(ret.val.z) = ret.val.natoms
        /\ Len(ret.val.coords) = ret.val.natoms
        /\ \A k \in 1..ret.val.natoms :
              /\ call.lines[k].kind = "good"
              /\ ret.val.z[k] = call.lines[k].z
              /\ ret.val.coords[k] = call.lines[k].xyz

C4_WitnessReturned ==
    /\ Returned("parse_gau_ein")
    /\ ret.kind = "ok"
    /\ ret.val.natoms = 2
    /\ ret.val.z[1] /= ret.val.z[2]

-----------------------------------------------------------------------------
(* Inputs of qchem_translate_to_gaussian: the engine's files *)

RECURSIVE DecStr(_)
\* the decimal digits of a natural number
DecStr(n) ==
    IF n < 10 THEN <<DigitChar[n + 1]>>
    ELSE Append(DecStr(n \div 10), DigitChar[(n % 10) + 1])

RECURSIVE FracStr(_, _)
\* the last e decimal digits of m
FracStr(m, e) ==
    IF e = 0 THEN <<>>
    ELSE Append(FracStr(m \div 10, e - 1), DigitChar[(m % 10) + 1])

\* a float written as a decimal literal
Render(x) ==
    (IF x.neg THEN <<"-">> ELSE <<>>)
        \o DecStr(x.m \div Pow10(x.e))
        \o (IF x.e > 0 THEN <<".">> \o FracStr(x.m, x.e) ELSE <<>>)

\* number of entries of a triangle of side n
Tri(n) == (n * (n + 1)) \div 2

\* the energies, field values and Hessian entries the engine is taken to
\* have computed
EnergySamples == {F(TRUE, 7612, 2), F(FALSE, 12345678, 0)}
GradBases == {0, 999997}
GradGiven(natoms, base) ==
    [k \in 1..(3 * natoms) |-> F(k % 2 = 0, base + k, 0)]
HessGiven(natoms) ==
    [k \in 1..Tri(3 * natoms) |-> F(k % 3 = 0, 7 * k, 0)]

\* a data file holding the values, three to a line, then `tail`
DataText(values, tail) ==
    Concat([k \in 1..Len(values) |->
               Render(values[k]) \o (IF k % 3 = 0 THEN <<NL>> ELSE <<SP>>)],
           <<>>) \o tail

DataVariants == {"good", "extra", "junk", "missing"}
DataFile(values, variant) ==
    CASE variant = "good" -> File(DataText(values, <<>>))
      [] variant = "extra" -> File(DataText(values, <<"4", "2", NL>>))
      [] variant = "junk" -> File(DataText(values, <<"x", NL>>))
      [] variant = "missing" -> NoFile

LogVariants == {"good", "nolabel", "badfloat", "missing"}
\* an engine log: the energy line between other text, a later energy line
\* after it
LogFile(energy, variant) ==
    LET other == <<"x", SP, "7", NL>>
        later == Label \o <<SP, "1", ".", "5", NL>>
    IN CASE variant = "good" ->
              File(other \o Label \o <<SP, SP>> \o Render(energy) \o <<NL>>
                   \o later)
         [] variant = "nolabel" -> File(other \o <<SP>> \o later)
         [] variant = "badfloat" -> File(Label \o <<SP, "x", NL>> \o later)
         [] variant = "missing" -> NoFile

\* what may lie at the output path before the call
StaleOutput == File(<<Fmt(F(FALSE, 9, 0)), NLItem>>)

\* the Calculations parse_gau_ein can hand over, within the bounds
Calculations ==
    { [natoms |-> n, nder |-> d, charge |-> 0, spin |-> 1,
       z |-> [k \in 1..n |-> 1],
       coords |-> [k \in 1..n |-> <<Zero, Zero, Zero>>]] :
        n \in 0..MaxAtoms, d \in 0..MaxNder }

NoLocals ==
    [energy |-> Zero, natoms |-> 0, data |-> <<>>, row |-> <<>>, g |-> 0,
     t |-> 0, hess |-> <<>>, i |-> 0, ix |-> 0, j |-> 0, jx |-> 0,
     count |-> 0]

Init ==
    /\ pc = "create"
    /\ call = [fn |-> "qchem_translate_to_gaussian"]
    /\ ret = None
    /\ calc \in Calculations
    /\ \E energy \in EnergySamples, base \in GradBases,
          lv \in LogVariants, ev, hv \in DataVariants :
          /\ given = [energy |-> energy,
                      grad |-> GradGiven(calc.natoms, base),
                      hess |-> HessGiven(calc.natoms),
                      log |-> lv, efield |-> ev, hessian |-> hv]
          /\ fs = [qchem_out |-> LogFile(energy, lv),
                   efield |-> DataFile(given.grad, ev),
                   hessian |-> DataFile(given.hess, hv)]
    /\ outfile \in {NoFile, StaleOutput}
    /\ loc = NoLocals

-----------------------------------------------------------------------------
(* qchem_translate_to_gaussian, one action per step *)

\* variant of Created that opens without truncating (C10 fails of it)
Reopened(old) == IF old.exists THEN old ELSE File(<<>>)
\* File::create: the file exists and is empty, whatever it held
Created(old) == File(<<>>)

\* outfile.write(...): the bytes are appended
Write(items) == outfile' = [outfile EXCEPT !.text = @ \o items]

\* the function returns r (or panics) and does nothing more
Finish(r) == ret' = r /\ pc' = "done"

\* calc.natoms.try_into().unwrap() from usize to u16
ToU16(x) == IF x > U16Max THEN Panic ELSE Ok(x)

\* variant of StubLines that counts values, not lines (C2 fails of it)
StubValues(natoms) == 6 + 9 * natoms
\* number of stub lines: for _ in 0..(2 + 3 * natoms)
StubLines(natoms) == 2 + 3 * natoms

\* variant of EmitCond that leaves the diagonal out (C1 fails of it)
EmitCondStrict(left, right) == left > right
\* if left >= right
EmitCond(left, right) == left >= right

\* variant of BreakAfter with four values to a row (C3 fails of it)
BreakAfterFour(count) == count % 4 = 0
\* if count % 3 == 0
BreakAfter(count) == count % 3 = 0

\* the turns of the two loops `for i in 0..n3 { for j in i..n3 {` and the
\* value of k in turn (i, j): the number of turns before it
Turns(n3) == {t \in (0..(n3 - 1)) \X (0..(n3 - 1)) : t[1] <= t[2]}
KAt(n3, i, j) ==
    Cardinality({t \in Turns(n3) : t[1] < i \/ (t[1] = i /\ t[2] < j)})

\* the two loops that fill the lookup from the triangular stream: turn (i, j)
\* puts data[k] * CONV_FACTOR under (i, j) and (j, i); data[k] panics past
\* the end of data
BuildHess(data, n3) ==
    IF \E t \in Turns(n3) : KAt(n3, t[1], t[2]) >= Len(data) THEN Panic
    ELSE Ok([key \in (0..(n3 - 1)) \X (0..(n3 - 1)) |->
                LET i == IF key[1] <= key[2] THEN key[1] ELSE key[2]
                    j == IF key[1] <= key[2] THEN key[2] ELSE key[1]
                IN Scale(data[KAt(n3, i, j) + 1])])

\* line 61
Create ==
    /\ pc = "create"
    /\ \E created \in BOOLEAN :
          IF created
          THEN /\ outfile' = Created(outfile)
               /\ IF ToU16(calc.natoms).kind = "panic"
                  THEN Finish(Panic) /\ UNCHANGED loc
                  ELSE /\ pc' = "energy"
                       /\ loc' = [loc EXCEPT !.natoms = calc.natoms]
                       /\ UNCHANGED ret
          ELSE Finish(Err("io: create")) /\ UNCHANGED <<outfile, loc>>
    /\ UNCHANGED <<call, fs, given, calc>>

\* line 66
ReadEnergy ==
    /\ pc = "energy"
    /\ IF ~fs.qchem_out.exists
       THEN Finish(Err("io: qchem.out")) /\ UNCHANGED loc
       ELSE LET energy == parse_energy(fs.qchem_out.text)
            IN IF energy.kind = "err"
               THEN Finish(energy) /\ UNCHANGED loc
               ELSE /\ loc' = [loc EXCEPT !.energy = energy.val]
                    /\ pc' = "write_energy"
                    /\ UNCHANGED ret
    /\ UNCHANGED <<call, fs, given, outfile, calc>>

\* line 67
WriteEnergy ==
    /\ pc = "write_energy"
    /\ Write(<<Fmt(loc.energy)>>)
    /\ pc' = "dipole"
    /\ UNCHANGED <<call, ret, fs, given, calc, loc>>

\* line 70
WriteDipole ==
    /\ pc = "dipole"
    /\ Write(ZeroLine)
    /\ pc' = "deriv"
    /\ UNCHANGED <<call, ret, fs, given, calc, loc>>

\* lines 73-77
ReadEfield ==
    /\ pc = "deriv"
    /\ IF calc.nder > 0
       THEN \E n3 \in U16Mul(3, loc.natoms) :
               IF n3.kind = "panic" THEN Finish(Panic) /\ UNCHANGED loc
               ELSE IF ~fs.efield.exists
               THEN Finish(Err("io: efield.dat")) /\ UNCHANGED loc
               ELSE LET data == parse_nums_from_str("f64", n3.val, fs.efield.text)
                    IN IF data.kind = "err"
                       THEN Finish(data) /\ UNCHANGED loc
                       ELSE /\ loc' = [loc EXCEPT !.data = data.val, !.g = 0]
                            /\ pc' = "grad"
                            /\ UNCHANGED ret
       ELSE pc' = "hess" /\ UNCHANGED <<ret, loc>>
    /\ UNCHANGED <<call, fs, given, outfile, calc>>

\* lines 78-79: the next iteration of the loop drains three values
GradDrain ==
    /\ pc = "grad"
    /\ IF loc.g < loc.natoms
       THEN IF Len(loc.data) < 3
            THEN Finish(Panic) /\ UNCHANGED loc
            ELSE /\ loc' = [loc EXCEPT !.row = SubSeq(loc.data, 1, 3),
                                       !.data = SubSeq(loc.data, 4, Len(loc.data))]
                 /\ pc' = "grad_el"
                 /\ UNCHANGED ret
       ELSE /\ loc' = [loc EXCEPT !.t = 0]
            /\ pc' = "stub"
            /\ UNCHANGED ret
    /\ UNCHANGED <<call, fs, given, outfile, calc>>

\* line 80
GradWriteEl ==
    /\ pc = "grad_el"
    /\ loc.row /= <<>>
    /\ Write(<<Fmt(Head(loc.row))>>)
    /\ loc' = [loc EXCEPT !.row = Tail(loc.row)]
    /\ UNCHANGED <<pc, call, ret, fs, given, calc>>

\* line 82
GradWriteNl ==
    /\ pc = "grad_el"
    /\ loc.row = <<>>
    /\ Write(<<NLItem>>)
    /\ loc' = [loc EXCEPT !.g = loc.g + 1]
    /\ pc' = "grad"
    /\ UNCHANGED <<call, ret, fs, given, calc>>

\* lines 85-87
WriteStub ==
    /\ pc = "stub"
    /\ IF loc.t < StubLines(loc.natoms)
       THEN /\ Write(ZeroLine)
            /\ loc' = [loc EXCEPT !.t = loc.t + 1]
            /\ UNCHANGED pc
       ELSE /\ pc' = "hess"
            /\ UNCHANGED <<outfile, loc>>
    /\ UNCHANGED <<call, ret, fs, given, calc>>

\* lines 91-96
ReadHessian ==
    /\ pc = "hess"
    /\ IF calc.nder > 1
       THEN \E n \in n_hessian(loc.natoms) :
               IF n.kind = "panic" THEN Finish(Panic) /\ UNCHANGED loc
               ELSE IF ~fs.hessian.exists
               THEN Finish(Err("io: hessian.dat")) /\ UNCHANGED loc
               ELSE LET data == parse_nums_from_str("f64", n.val, fs.hessian.text)
                    IN IF data.kind = "err"
                       THEN Finish(data) /\ UNCHANGED loc
                       ELSE /\ loc' = [loc EXCEPT !.data = data.val]
                            /\ pc' = "build"
                            /\ UNCHANGED ret
       ELSE Finish(Ok(<<>>)) /\ UNCHANGED loc
    /\ UNCHANGED <<call, fs, given, outfile, calc>>

\* lines 103-113
BuildLookup ==
    /\ pc = "build"
    /\ LET hess == BuildHess(loc.data, 3 * loc.natoms)
       IN IF hess.kind = "panic"
          THEN Finish(Panic) /\ UNCHANGED loc
          ELSE /\ loc' = [loc EXCEPT !.hess = hess.val, !.count = 0, !.i = 0,
                                     !.ix = 0, !.j = 0, !.jx = 0]
               /\ pc' = IF loc.natoms = 0 THEN "final" ELSE "emit"
               /\ UNCHANGED ret
    /\ UNCHANGED <<call, fs, given, outfile, calc>>

\* the loop variables after one more turn of the innermost loop (lines
\* 114-117); i reaches natoms when the loops are over
Advance(l) ==
    IF l.jx < 2 THEN [l EXCEPT !.jx = l.jx + 1]
    ELSE IF l.j + 1 < l.natoms THEN [l EXCEPT !.jx = 0, !.j = l.j + 1]
    ELSE IF l.ix < 2 THEN [l EXCEPT !.jx = 0, !.j = 0, !.ix = l.ix + 1]
    ELSE [l EXCEPT !.jx = 0, !.j = 0, !.ix = 0, !.i = l.i + 1]

\* lines 118-126: one turn of the innermost loop
EmitHessian ==
    /\ pc = "emit"
    /\ LET left == 3 * loc.i + loc.ix
           right == 3 * loc.j + loc.jx
           next == Advance(loc)
           over == next.i >= loc.natoms
       IN IF EmitCond(left, right)
          THEN IF <<left, right>> \notin DOMAIN loc.hess
               THEN Finish(Panic) /\ UNCHANGED <<outfile, loc>>
               ELSE /\ Write(<<Fmt(loc.hess[<<left, right>>])>>
                             \o (IF BreakAfter(loc.count + 1)
                                 THEN <<NLItem>> ELSE <<>>))
                    /\ loc' = [next EXCEPT !.count = loc.count + 1]
                    /\ pc' = IF over THEN "final" ELSE "emit"
                    /\ UNCHANGED ret
          ELSE /\ loc' = next
               /\ pc' = IF over THEN "final" ELSE "emit"
               /\ UNCHANGED <<ret, outfile>>
    /\ UNCHANGED <<call, fs, given, calc>>

\* lines 131-133
WriteFinal ==
    /\ pc = "final"
    /\ Write(<<NLItem>>)
    /\ Finish(Ok(<<>>))
    /\ UNCHANGED <<call, fs, given, calc, loc>>

\* the steps that write to the file
WriteSteps == {"write_energy", "dipole", "grad_el", "stub", "emit", "final"}

\* outfile.write(...)? fails: the error is returned and nothing is written
WriteFails ==
    /\ pc \in WriteSteps
    /\ pc = "stub" => loc.t < StubLines(loc.natoms)
    /\ pc = "emit" => EmitCond(3 * loc.i + loc.ix, 3 * loc.j + loc.jx)
    /\ Finish(Err("io: write"))
    /\ UNCHANGED <<call, fs, given, outfile, calc, loc>>

Next ==
    \/ Create
    \/ ReadEnergy
    \/ WriteEnergy
    \/ WriteDipole
    \/ ReadEfield
    \/ GradDrain
    \/ GradWriteEl
    \/ GradWriteNl
    \/ WriteStub
    \/ ReadHessian
    \/ BuildLookup
    \/ EmitHessian
    \/ WriteFinal
    \/ WriteFails

Spec == Init /\ [][Next]_vars

-----------------------------------------------------------------------------
(* Claims about qchem_translate_to_gaussian *)

\* the file as values and line breaks, widths left out
Num(x) == [t |-> "num", v |-> x]
View(items) ==
    [k \in 1..Len(items) |->
        IF items[k].t = "nl" THEN NLItem ELSE Num(items[k].v)]

\* the blocks as the claims describe them, from what the engine computed
HeadBlock == <<Num(given.energy), Num(Zero), Num(Zero), Num(Zero), NLItem>>
GradBlock ==
    [p \in 1..(4 * calc.natoms) |->
        IF p % 4 = 0 THEN NLItem
        ELSE Num(given.grad[3 * ((p - 1) \div 4) + ((p - 1) % 4) + 1])]
StubBlock ==
    [p \in 1..(4 * (2 + 3 * calc.natoms)) |->
        IF p % 4 = 0 THEN NLItem ELSE Num(Zero)]
Upto(order) ==
    HeadBlock \o (IF order >= 1 THEN GradBlock \o StubBlock ELSE <<>>)

Succeeded == pc = "done" /\ ret.kind = "ok"
\* what follows the stub block in the file
Remainder ==
    SubSeq(outfile.text, Len(Upto(calc.nder)) + 1, Len(outfile.text))
IsNum(it) == it.t = "num"
\* the values of the Hessian block in the order they were written
HessianValues ==
    LET nums == SelectSeq(Remainder, IsNum)
    IN [k \in 1..Len(nums) |-> nums[k].v]

Scaled(x) == [neg |-> x.neg, m |-> x.m, e |-> x.e, s |-> 1]
\* position in the upper-triangular stream (rows i = 0..n-1, columns
\* j = i..n-1) of entry (r, c), r <= c, counted from 1
UpperPos(n, r, c) == r * n - ((r * (r - 1)) \div 2) + (c - r) + 1

\* C1: with derivative_order >= 2 and atom_count >= 1 the Hessian block holds
\* exactly N*(N+1)/2 values, N = 3*atom_count, by increasing row `left` and
\* within a row by increasing column `right` <= left, the value for
\* (left, right) being the value at (right, left) of the upper-triangular
\* input times CONV_FACTOR; for one atom and input a b c d e f the order is
\* a b d c e f.
C1_HessianReindexed ==
    (Succeeded /\ calc.nder >= 2 /\ calc.natoms >= 1) =>
        LET n == 3 * calc.natoms
            h == given.hess
        IN /\ Len(HessianValues) = (n * (n + 1)) \div 2
           /\ \A left \in 0..(n - 1) : \A right \in 0..left :
                 HessianValues[((left * (left + 1)) \div 2) + right + 1]
                     = Scaled(h[UpperPos(n, right, left)])
           /\ calc.natoms = 1 =>
                 HessianValues = <<Scaled(h[1]), Scaled(h[2]), Scaled(h[4]),
                                   Scaled(h[3]), Scaled(h[5]), Scaled(h[6])>>

\* C1 witness: a Hessian block written for two atoms
C1_Witness ==
    /\ Succeeded
    /\ calc.nder >= 2
    /\ calc.natoms = 2
    /\ Len(HessianValues) = 21

IsPrefix(a, b) == Len(a) <= Len(b) /\ SubSeq(b, 1, Len(a)) = a

\* the file after a successful run, as C2 describes it
C2_Final ==
    Succeeded =>
        /\ outfile.exists
        /\ IsPrefix(Upto(calc.nder), View(outfile.text))
        /\ calc.nder < 2 => View(outfile.text) = Upto(calc.nder)
        /\ calc.nder >= 2 =>
              /\ Len(HessianValues) = Tri(3 * calc.natoms)
              /\ Remainder /= <<>>

\* a step writes forward only: what the file held stays, in place
C2_Forward ==
    (pc /= "create" /\ outfile.exists) =>
        (outfile'.exists /\ IsPrefix(outfile.text, outfile'.text))

\* C2: a successful run writes, in this order and without going back, the
\* energy, one dipole record of three zeros, then iff derivative_order >= 1
\* atom_count gradient lines of three values in stored order and
\* 2 + 3*atom_count lines of three zeros, then iff derivative_order >= 2 the
\* Hessian block; with derivative_order = 0 nothing follows the dipole record.
C2_BlocksInOrder == [](C2_Final) /\ [][C2_Forward]_vars

\* C2 witness: a run with gradient, stub and Hessian blocks
C2_Witness ==
    /\ Succeeded
    /\ calc.nder = 2
    /\ calc.natoms = 2
    /\ IsPrefix(Upto(2), View(outfile.text))
    /\ Len(Remainder) > 21

\* the positions of the fields and of the line breaks of the file
Fields == {k \in 1..Len(outfile.text) : outfile.text[k].t = "num"}
RowEnds == {k \in 1..Len(outfile.text) : outfile.text[k].t = "nl"}
\* the number of fields of the row that ends at line break k
RowFields(k) ==
    Cardinality({j \in Fields :
                    j < k /\ \A e \in RowEnds : e < k => e < j})
\* the fields after the last line break
OpenFields == {j \in Fields : \A e \in RowEnds : e < j}
FirstRowEnd == CHOOSE k \in RowEnds : \A e \in RowEnds : k <= e
LastRowEnd == CHOOSE k \in RowEnds : \A e \in RowEnds : e <= k

EnergyFails == given.log /= "good"
EfieldFails == ~EnergyFails /\ calc.nder >= 1 /\ given.efield /= "good"
HessianFails ==
    /\ ~EnergyFails
    /\ calc.nder >= 1 => given.efield = "good"
    /\ calc.nder >= 2
    /\ given.hessian /= "good"

\* what the file holds when a read or a parse has failed
C10_Partial ==
    /\ outfile.exists
    /\ EnergyFails \/ EfieldFails \/ HessianFails
    /\ EnergyFails => outfile.text = <<>>
    /\ EfieldFails => View(outfile.text) = Upto(0)
    /\ HessianFails => View(outfile.text) = Upto(1)

\* what the file holds when a write has failed: a front part of the blocks
C10_WriteFailed ==
    /\ outfile.exists
    /\ \/ IsPrefix(View(outfile.text), Upto(calc.nder))
       \/ IsPrefix(Upto(calc.nder), View(outfile.text))

\* C10 as stated: the output file is created (truncated) before any engine
\* file is read and nothing is rolled back: whenever an error is returned the
\* file exists and holds exactly the blocks written before the failing step.
C10_AsStated ==
    (pc = "done" /\ ret.kind = "err") =>
        IF ret = Err("io: write") THEN C10_WriteFailed ELSE C10_Partial

\* C10 amended: the same, for every error returned after File::create has
\* succeeded: the file exists and holds exactly the blocks written before the
\* failing step (empty if energy extraction fails, energy and dipole record
\* if reading efield.dat fails, everything through the stub block if reading
\* hessian.dat fails).  When File::create itself fails the error is returned
\* and the output path is left as it was.
C10_PartialFileAfterCreate ==
    (pc = "done" /\ ret.kind = "err" /\ ret /= Err("io: create")) =>
        IF ret = Err("io: write") THEN C10_WriteFailed ELSE C10_Partial

\* C10 witness: hessian.dat cannot be parsed, the file holds everything
\* through the stub block, where a stale file lay before
C10_Witness ==
    /\ pc = "done"
    /\ ret = Err("failed to parse values")
    /\ HessianFails
    /\ calc.natoms = 2
    /\ View(outfile.text) = Upto(1)

====
